---- MODULE Spec2Model ----
(***************************************************************************)
(* Model of the beam solver of src/src/civil/beam_analysis.py.             *)
(*                                                                         *)
(* Numbers.  The solver computes with Python floats and numpy float64      *)
(* arrays.  The model computes with exact rationals: a number is a pair    *)
(* <<n, d>> with d > 0 and gcd(n, d) = 1, so every +, -, *, / of the code  *)
(* is the exact operation and rounding is not represented.  A value that   *)
(* is 0 in the model is 0 up to rounding in the code.  The floats that are  *)
(* no rationals, inf, -inf and nan, are the pairs <<1, 0>>, <<-1, 0>> and  *)
(* <<0, 0>>; numpy produces them when an array is divided by 0.            *)
(*                                                                         *)
(* Units.  The code reads E and I only as the product E * I (line 130).    *)
(* The model holds E in GPa (10^9 Pa) and I in 10^-9 m^4, which leaves the *)
(* product, the signs and float()'s verdict as they are in the code.       *)
(*                                                                         *)
(* Arrays.  A numpy array of num_points samples is a sequence indexed      *)
(* 1..num_points; sample k of the code (0-based) is element k+1.           *)
(*                                                                         *)
(* Calls.  The variables properties .. results_df are the frame of the     *)
(* call of solve_beam that is running.  The variable program holds the     *)
(* rest of the program: the frames of the calls other threads have in      *)
(* progress, and the outcomes of the calls that have ended.                *)
(***************************************************************************)
EXTENDS Integers, Sequences, FiniteSets, Bags, TLC

(***************************************************************************)
(* Exact rational arithmetic standing for Python float arithmetic.         *)
(***************************************************************************)
Abs(a) == IF a < 0 THEN -a ELSE a

RECURSIVE GCD(_, _)
GCD(a, b) == IF b = 0 THEN a ELSE GCD(b, a % b)

\* The rational n/d in lowest terms with a positive denominator (d # 0).
Rat(n, d) ==
    LET g == GCD(Abs(n), Abs(d))
        s == IF d < 0 THEN -1 ELSE 1
    IN  <<(s * n) \div g, (s * d) \div g>>

Num(i) == <<i, 1>>

Zero == Num(0)

\* a + b
RAdd(a, b) ==
    LET g == GCD(a[2], b[2])
    IN  Rat(a[1] * (b[2] \div g) + b[1] * (a[2] \div g), (a[2] \div g) * b[2])

\* -a
RNeg(a) == <<-a[1], a[2]>>

\* a - b
RSub(a, b) == RAdd(a, RNeg(b))

\* a * b (cross-reduced first, so the products stay small)
RMul(a, b) ==
    LET g1 == GCD(Abs(a[1]), b[2])
        g2 == GCD(Abs(b[1]), a[2])
    IN  Rat((a[1] \div g1) * (b[1] \div g2), (a[2] \div g2) * (b[2] \div g1))

\* a / b for b # 0
RDiv(a, b) == RMul(a, Rat(b[2], b[1]))

\* a >= b, a < b, |a|
RGe(a, b) == a[1] * b[2] >= b[1] * a[2]

RLt(a, b) == ~RGe(a, b)

RAbs(a) == <<Abs(a[1]), a[2]>>

\* Python's int(): truncation toward zero.
PyInt(a) == IF a[1] >= 0 THEN a[1] \div a[2] ELSE -((-a[1]) \div a[2])

\* The floats that are no rationals.
Inf == <<1, 0>>

NegInf == <<-1, 0>>

NaN == <<0, 0>>

IsFinite(a) == a[2] # 0

\* a + b, a - b, a * b and a / b of numpy float64 arrays: the exact operation
\* on finite operands; inf, -inf and nan as IEEE 754 combines them; a finite
\* value divided by 0 is inf, -inf or (0 / 0) nan, and no exception.
FAdd(a, b) ==
    IF IsFinite(a) /\ IsFinite(b) THEN RAdd(a, b)
    ELSE IF a = NaN \/ b = NaN THEN NaN
    ELSE IF ~IsFinite(a) /\ ~IsFinite(b) THEN (IF a = b THEN a ELSE NaN)
    ELSE IF IsFinite(a) THEN b
    ELSE a

FNeg(a) == <<-a[1], a[2]>>

FSub(a, b) == FAdd(a, FNeg(b))

Sign(n) == IF n > 0 THEN 1 ELSE IF n < 0 THEN -1 ELSE 0

FMul(a, b) ==
    IF IsFinite(a) /\ IsFinite(b) THEN RMul(a, b)
    ELSE IF a = NaN \/ b = NaN THEN NaN
    ELSE <<Sign(a[1]) * Sign(b[1]), 0>>

FDiv(a, b) ==
    IF IsFinite(a) /\ IsFinite(b)
    THEN (IF b = Zero THEN <<Sign(a[1]), 0>> ELSE RDiv(a, b))
    ELSE IF a = NaN \/ b = NaN THEN NaN
    ELSE IF IsFinite(b)
    THEN <<Sign(a[1]) * (IF b[1] < 0 THEN -1 ELSE 1), 0>>
    ELSE IF IsFinite(a) THEN Zero
    ELSE NaN

\* A property value float() rejects (a string such as 'abc').
NotANumber == <<"abc">>

\* A key the properties dict does not hold.
Missing == <<>>

\* The defaults of properties.get (lines 76-78): 10.0 m, 200e9 Pa, 8.3e-5 m^4.
DefaultLength == Num(10)

DefaultE == Num(200)

DefaultI == Num(83000)

\* properties.get(key, default)
Get(v, default) == IF v = Missing THEN default ELSE v

\* float(v) returns (v is a number, not a string).
IsNumber(v) == Len(v) = 2

(***************************************************************************)
(* Bounds of the model and the inputs drawn from them.                     *)
(***************************************************************************)
MaxSupports == 2

MaxLoads == 2

\* Calls of solve_beam one run of the program makes.
MaxCalls == 3

\* Samples per metre of the grid (beam_analysis.py line 82).
PointsPerMetre == 200

\* Workers one session of the main window starts.
MaxWorkers == 2

\* Configuration files one session of the main window opens.
MaxConfigs == 2

\* Lengths: 1/100 (3 samples), 1/60 (4 samples, dx = 1/180), 1/50 (5 samples);
\* 1/400 and 0 (a single sample), -3/400 (an empty grid), -1/100 (a negative
\* sample count); a non-number.
Lengths ==
    {Rat(1, 100), Rat(1, 60), Rat(1, 50), Rat(1, 400), Zero, Rat(-3, 400),
     Rat(-1, 100), NotANumber}

Stiffness == {[E |-> Num(2), I |-> Num(1)]}

AllProperties ==
    {[length |-> l, E |-> s.E, I |-> s.I] : l \in Lengths, s \in Stiffness}

SupportTypes == {"pinned", "roller", "fixed"}

\* Supports: a pin left of, at, or right of a roller; a roller beyond the
\* end of the shorter beams; a fixed support at the origin or away from it.
AllSupports ==
    [type : {"pinned"}, position : {Zero, Rat(1, 100)}]
    \cup [type : {"roller"}, position : {Zero, Rat(1, 50)}]
    \cup [type : {"fixed"}, position : {Zero, Rat(1, 100)}]

SupportPositions == {s.position : s \in AllSupports}

PointLoads ==
    {[type |-> "point", magnitude |-> Num(3), position |-> Zero],
     [type |-> "point", magnitude |-> Num(-2), position |-> Rat(1, 100)]}

LoadPositions == {l.position : l \in PointLoads}

DistributedLoads ==
    {[type |-> "distributed", magnitude |-> Num(-200), start |-> Zero,
      end |-> Rat(1, 100)],
     [type |-> "distributed", magnitude |-> Num(-200), start |-> Rat(1, 200),
      end |-> Rat(1, 50)]}

AllLoads == PointLoads \cup DistributedLoads

SeqsUpTo(S, n) == UNION {[1..m -> S] : m \in 0..n}

(***************************************************************************)
(* Reaction solver.                                                        *)
(***************************************************************************)
\* The resultant of one load (lines 18-29 and 49-60): the force and where it
\* acts.
resultant_force(load) ==
    IF load.type = "point"
    THEN load.magnitude
    ELSE RMul(load.magnitude, RSub(load.end, load.start))

resultant_position(load) ==
    IF load.type = "point"
    THEN load.position
    ELSE RAdd(load.start, RDiv(RSub(load.end, load.start), Num(2)))

\* total_force after the loop over loads.
RECURSIVE total_force(_)
total_force(lds) ==
    IF lds = <<>> THEN Zero
    ELSE RAdd(total_force(SubSeq(lds, 1, Len(lds) - 1)),
              resultant_force(lds[Len(lds)]))

\* total_moment_about_pin / total_moment_about_fixed after the loop over
\* loads: the moments of the resultants about position p.
RECURSIVE total_moment_about(_, _)
total_moment_about(lds, p) ==
    IF lds = <<>> THEN Zero
    ELSE RAdd(total_moment_about(SubSeq(lds, 1, Len(lds) - 1), p),
              RMul(resultant_force(lds[Len(lds)]),
                   RSub(resultant_position(lds[Len(lds)]), p)))

\* next((s['position'] for s in supports if s['type'] == t), default)
FirstPosition(sups, t, default) ==
    IF \E i \in 1..Len(sups) : sups[i].type = t
    THEN sups[CHOOSE i \in 1..Len(sups) :
                  /\ sups[i].type = t
                  /\ \A j \in 1..(i - 1) : sups[j].type # t].position
    ELSE default

\* A dict literal {k1: v1, k2: v2} as the sequence of its items.
Dict2(k1, v1, k2, v2) ==
    IF k1 = k2 THEN <<<<k1, v2>>>> ELSE <<<<k1, v1>>, <<k2, v2>>>>

AnalysisError(msg) == [type |-> "AnalysisError", msg |-> msg]

NoError == [type |-> "none", msg |-> ""]

\* R_roller and R_pin of lines 35-36.
\* Mutant: the load moments taken about the origin instead of the pin.
R_roller_of_about_origin(lds, pinned_pos, roller_pos) ==
    RDiv(RNeg(total_moment_about(lds, Zero)), RSub(roller_pos, pinned_pos))

R_roller_of(lds, pinned_pos, roller_pos) ==
    RDiv(RNeg(total_moment_about(lds, pinned_pos)), RSub(roller_pos, pinned_pos))

\* Mutant: the roller reaction added instead of subtracted.
R_pin_of_sign_slip(lds, pinned_pos, roller_pos) ==
    RAdd(RNeg(total_force(lds)), R_roller_of(lds, pinned_pos, roller_pos))

R_pin_of(lds, pinned_pos, roller_pos) ==
    RSub(RNeg(total_force(lds)), R_roller_of(lds, pinned_pos, roller_pos))

\* Mutant: the test of line 32 left out; the division of line 35 by 0 gives
\* inf or nan reactions.
calculate_reactions_simply_supported_unguarded(len, sups, lds) ==
    LET pinned_pos == FirstPosition(sups, "pinned", Zero)
        roller_pos == FirstPosition(sups, "roller", len)
        effective_length == RSub(roller_pos, pinned_pos)
        R_roller == FDiv(RNeg(total_moment_about(lds, pinned_pos)),
                         effective_length)
    IN  [raised |-> NoError,
         reactions |-> Dict2(pinned_pos, FSub(RNeg(total_force(lds)), R_roller),
                             roller_pos, R_roller),
         initial_moment |-> Zero]

\* _calculate_reactions_simply_supported: the raised error, or the reactions
\* and the initial moment.
calculate_reactions_simply_supported(len, sups, lds) ==
    LET pinned_pos == FirstPosition(sups, "pinned", Zero)
        roller_pos == FirstPosition(sups, "roller", len)
        effective_length == RSub(roller_pos, pinned_pos)
    IN  IF effective_length = Zero
        THEN [raised |-> AnalysisError("Pinned and roller supports cannot be at the same position."),
              reactions |-> <<>>, initial_moment |-> Zero]
        ELSE [raised |-> NoError,
              reactions |-> Dict2(pinned_pos, R_pin_of(lds, pinned_pos, roller_pos),
                                  roller_pos, R_roller_of(lds, pinned_pos, roller_pos)),
              initial_moment |-> Zero]

\* Mutant: the moments taken about the origin, not about the fixed support.
calculate_reactions_cantilever_about_origin(sups, lds) ==
    LET fixed_pos == sups[1].position
        R_fixed_force == RNeg(total_force(lds))
        M_fixed_reaction == RNeg(total_moment_about(lds, Zero))
    IN  [raised |-> NoError,
         reactions |-> <<<<fixed_pos, R_fixed_force>>>>,
         initial_moment |-> M_fixed_reaction]

\* _calculate_reactions_cantilever.
calculate_reactions_cantilever(sups, lds) ==
    LET fixed_pos == sups[1].position
        R_fixed_force == RNeg(total_force(lds))
        M_fixed_reaction == RNeg(total_moment_about(lds, fixed_pos))
    IN  [raised |-> NoError,
         reactions |-> <<<<fixed_pos, R_fixed_force>>>>,
         initial_moment |-> M_fixed_reaction]

(***************************************************************************)
(* The grid (lines 82-84).                                                 *)
(***************************************************************************)
num_points_of(len) == PyInt(RMul(len, Num(PointsPerMetre))) + 1

\* np.linspace(0, length, num_points) for num_points >= 0: sample k (from 0)
\* is k * length / (num_points - 1); a single sample is the start, 0.
linspace(len, n) ==
    [k \in 1..n |-> IF n = 1 THEN Zero
                    ELSE RMul(Num(k - 1), RDiv(len, Num(n - 1)))]

(***************************************************************************)
(* Internal force integrator (lines 110-124).                              *)
(***************************************************************************)
\* Mutant: x > pos for x >= pos.
step_at_strict(xk, pos, mag) == IF RGe(pos, xk) THEN Zero ELSE mag

\* np.where(x >= pos, mag, 0) at one sample.
step_at(xk, pos, mag) == IF RGe(xk, pos) THEN mag ELSE Zero

\* Mutant: line 122 left out, so a distributed load adds nothing beyond its
\* end.
load_shear_at_without_plateau(xk, load) ==
    IF load.type = "point"
    THEN step_at(xk, load.position, load.magnitude)
    ELSE IF RGe(xk, load.start) /\ RLt(xk, load.end)
    THEN RMul(load.magnitude, RSub(xk, load.start))
    ELSE Zero

\* What one load adds to V at the sample xk (lines 116-122).
load_shear_at(xk, load) ==
    IF load.type = "point"
    THEN step_at(xk, load.position, load.magnitude)
    ELSE RAdd(IF RGe(xk, load.start) /\ RLt(xk, load.end)
              THEN RMul(load.magnitude, RSub(xk, load.start))
              ELSE Zero,
              step_at(xk, load.end,
                      RMul(load.magnitude, RSub(load.end, load.start))))

RECURSIVE reactions_shear_at(_, _)
reactions_shear_at(xk, reacts) ==
    IF reacts = <<>> THEN Zero
    ELSE RAdd(reactions_shear_at(xk, SubSeq(reacts, 1, Len(reacts) - 1)),
              step_at(xk, reacts[Len(reacts)][1], reacts[Len(reacts)][2]))

\* Mutant: "V =" for "V +=" in the loop over loads, so the last load wins.
loads_shear_at_assigned(xk, lds) ==
    IF lds = <<>> THEN Zero ELSE load_shear_at(xk, lds[Len(lds)])

RECURSIVE loads_shear_at(_, _)
loads_shear_at(xk, lds) ==
    IF lds = <<>> THEN Zero
    ELSE RAdd(loads_shear_at(xk, SubSeq(lds, 1, Len(lds) - 1)),
              load_shear_at(xk, lds[Len(lds)]))

\* V after the two loops of lines 113-122, at the sample xk.
shear_at(xk, reacts, lds) ==
    RAdd(reactions_shear_at(xk, reacts), loads_shear_at(xk, lds))

shear(xs, reacts, lds) == [k \in 1..Len(xs) |-> shear_at(xs[k], reacts, lds)]

\* Mutant: the running sum of the elements before k, leaving element k out.
cumsum_exclusive(s) ==
    LET c[k \in 0..Len(s)] == IF k = 0 THEN Zero ELSE FAdd(c[k - 1], s[k])
    IN  [k \in 1..Len(s) |-> c[k - 1]]

\* np.cumsum: element k is the sum of the elements up to and including k.
cumsum(s) ==
    LET c[k \in 0..Len(s)] == IF k = 0 THEN Zero ELSE FAdd(c[k - 1], s[k])
    IN  [k \in 1..Len(s) |-> c[k]]

\* Mutant: dx added to the cumulative sum instead of multiplying it.
moment_plus_dx(Vs, init_moment, step) ==
    LET c == cumsum(Vs)
    IN  [k \in 1..Len(Vs) |-> RAdd(init_moment, RAdd(c[k], step))]

\* M = np.full(num_points, initial_moment); M += np.cumsum(V) * dx
moment(Vs, init_moment, step) ==
    LET c == cumsum(Vs)
    IN  [k \in 1..Len(Vs) |-> RAdd(init_moment, RMul(c[k], step))]

(***************************************************************************)
(* Deflection integrator (lines 130-133).                                  *)
(***************************************************************************)
\* slope = np.cumsum(M / (E * I)) * dx
slope_of(Ms, Ev, Iv, step) ==
    LET EI == RMul(Ev, Iv)
        c == cumsum([k \in 1..Len(Ms) |-> FDiv(Ms[k], EI)])
    IN  [k \in 1..Len(Ms) |-> FMul(c[k], step)]

\* deflection = np.cumsum(slope) * dx
raw_deflection(sl, step) ==
    LET c == cumsum(sl)
    IN  [k \in 1..Len(sl) |-> FMul(c[k], step)]

(***************************************************************************)
(* Boundary condition corrector (lines 140-156).                           *)
(***************************************************************************)
\* np.argmin(np.abs(x - p)): the first sample nearest to p (xs not empty).
argmin_abs(xs, p) ==
    CHOOSE i \in 1..Len(xs) :
        /\ \A j \in 1..Len(xs) : RGe(RAbs(RSub(xs[j], p)), RAbs(RSub(xs[i], p)))
        /\ \A j \in 1..(i - 1) : RAbs(RSub(xs[j], p)) # RAbs(RSub(xs[i], p))

\* Mutant: the correction line measured from the origin, not from the pin.
corrected_deflection_from_origin(xs, defl, idx_pin, idx_roller) ==
    LET y_pin_raw == defl[idx_pin]
        y_roller_raw == defl[idx_roller]
        line_slope == FDiv(FSub(y_roller_raw, y_pin_raw),
                           RSub(xs[idx_roller], xs[idx_pin]))
    IN  [k \in 1..Len(xs) |->
            FSub(defl[k], FAdd(FMul(line_slope, xs[k]), y_pin_raw))]

\* Mutant: the correction line without its offset y_pin_raw.
corrected_deflection_without_offset(xs, defl, idx_pin, idx_roller) ==
    LET y_pin_raw == defl[idx_pin]
        y_roller_raw == defl[idx_roller]
        line_slope == FDiv(FSub(y_roller_raw, y_pin_raw),
                           RSub(xs[idx_roller], xs[idx_pin]))
    IN  [k \in 1..Len(xs) |->
            FSub(defl[k], FMul(line_slope, RSub(xs[k], xs[idx_pin])))]

\* deflection - (line_slope * (x - x[idx_pin]) + y_pin_raw), lines 147-156.
corrected_deflection(xs, defl, idx_pin, idx_roller) ==
    LET y_pin_raw == defl[idx_pin]
        y_roller_raw == defl[idx_roller]
        line_slope == FDiv(FSub(y_roller_raw, y_pin_raw),
                           RSub(xs[idx_roller], xs[idx_pin]))
    IN  [k \in 1..Len(xs) |->
            FSub(defl[k],
                 FAdd(FMul(line_slope, RSub(xs[k], xs[idx_pin])), y_pin_raw))]

(***************************************************************************)
(* solve_beam (lines 69-167) as a function of its arguments.               *)
(***************************************************************************)
\* sorted([s['type'] for s in supports]): 'fixed' < 'pinned' < 'roller'.
TypeCount(sups, t) == Cardinality({i \in 1..Len(sups) : sups[i].type = t})

support_types_of(sups) ==
    [i \in 1..TypeCount(sups, "fixed") |-> "fixed"]
    \o [i \in 1..TypeCount(sups, "pinned") |-> "pinned"]
    \o [i \in 1..TypeCount(sups, "roller") |-> "roller"]

\* Mutant: any list that holds a fixed support taken for a cantilever.
is_cantilever_of_any_fixed(sups) == TypeCount(sups, "fixed") > 0

is_cantilever_of(sups) == support_types_of(sups) = <<"fixed">> /\ Len(sups) = 1

is_ss_of(sups) == support_types_of(sups) = <<"pinned", "roller">>

\* Mutant: 'in' for 'not in' in the test of line 97.
unrecognized_error_inverted(sups) ==
    IF TypeCount(sups, "pinned") > 0 /\ TypeCount(sups, "fixed") > 0
    THEN AnalysisError("Invalid support configuration: The structure is unstable.")
    ELSE AnalysisError("Unsupported support combination")

\* The error of lines 95-107 for a support list of neither pattern.
unrecognized_error(sups) ==
    IF TypeCount(sups, "pinned") = 0 /\ TypeCount(sups, "fixed") = 0
    THEN AnalysisError("Invalid support configuration: The structure is unstable.")
    ELSE AnalysisError("Unsupported support combination")

\* Lines 91-107: the reaction solver the pattern selects, or the error.
reactions_of(len, sups, lds) ==
    IF is_ss_of(sups) THEN calculate_reactions_simply_supported(len, sups, lds)
    ELSE IF is_cantilever_of(sups) THEN calculate_reactions_cantilever(sups, lds)
    ELSE [raised |-> unrecognized_error(sups), reactions |-> <<>>,
          initial_moment |-> Zero]

ValueError(msg) == [type |-> "ValueError", msg |-> msg]

ZeroDivisionError == [type |-> "ZeroDivisionError", msg |-> "float division by zero"]

\* Lines 82-84: the error raised while the grid is built, if any.
grid_error(len) ==
    IF num_points_of(len) < 0
    THEN ValueError("Number of samples must be non-negative.")
    ELSE IF num_points_of(len) = 1 THEN ZeroDivisionError
    ELSE NoError

dx_of(len) == RDiv(len, Num(num_points_of(len) - 1))

\* Mutant: a fixed support away from position 0 raises instead of warning.
boundary_error_fixed_off_origin(xs, sups) ==
    IF is_cantilever_of(sups)
    THEN (IF sups[1].position # Zero
          THEN AnalysisError("Deflection calculation for cantilever assumes fixed support is at position 0.")
          ELSE NoError)
    ELSE IF ~is_ss_of(sups) THEN NoError
    ELSE IF xs = <<>>
    THEN ValueError("attempt to get argmin of an empty sequence")
    ELSE IF argmin_abs(xs, FirstPosition(sups, "pinned", Zero))
            = argmin_abs(xs, FirstPosition(sups, "roller", Zero))
    THEN AnalysisError("Cannot calculate deflection; supports are at the same position.")
    ELSE NoError

\* Mutant: the test of line 151 left out; line 154 then divides by 0.0.
boundary_error_unguarded(xs, sups) ==
    IF ~is_ss_of(sups) THEN NoError
    ELSE IF xs = <<>>
    THEN ValueError("attempt to get argmin of an empty sequence")
    ELSE NoError

\* Lines 135-156: the error of the boundary-condition step, if any.
boundary_error(xs, sups) ==
    IF ~is_ss_of(sups) THEN NoError
    ELSE IF xs = <<>>
    THEN ValueError("attempt to get argmin of an empty sequence")
    ELSE IF argmin_abs(xs, FirstPosition(sups, "pinned", Zero))
            = argmin_abs(xs, FirstPosition(sups, "roller", Zero))
    THEN AnalysisError("Cannot calculate deflection; supports are at the same position.")
    ELSE NoError

\* Lines 135-156: the deflection after the boundary-condition step.
boundary_deflection(xs, defl, sups) ==
    IF is_ss_of(sups)
    THEN corrected_deflection(xs, defl,
                              argmin_abs(xs, FirstPosition(sups, "pinned", Zero)),
                              argmin_abs(xs, FirstPosition(sups, "roller", Zero)))
    ELSE defl

NoResult ==
    [Position_m |-> <<>>, Shear_Force_N |-> <<>>, Bending_Moment_Nm |-> <<>>,
     Slope_rad |-> <<>>, Deflection_m |-> <<>>]

Raise(err) == [raised |-> err, results_df |-> NoResult]

solve_beam(props, sups, lds) ==
    IF ~(/\ IsNumber(Get(props.length, DefaultLength))
         /\ IsNumber(Get(props.E, DefaultE))
         /\ IsNumber(Get(props.I, DefaultI)))
    THEN Raise(AnalysisError("Invalid beam property."))
    ELSE IF grid_error(Get(props.length, DefaultLength)) # NoError
    THEN Raise(grid_error(Get(props.length, DefaultLength)))
    ELSE
    LET len == Get(props.length, DefaultLength)
        xs == linspace(len, num_points_of(len))
        step == dx_of(len)
        r == reactions_of(len, sups, lds)
        Vs == shear(xs, r.reactions, lds)
        Ms == moment(Vs, r.initial_moment, step)
        sl == slope_of(Ms, Get(props.E, DefaultE), Get(props.I, DefaultI), step)
        defl == raw_deflection(sl, step)
    IN  IF r.raised # NoError THEN Raise(r.raised)
        ELSE IF boundary_error(xs, sups) # NoError
        THEN Raise(boundary_error(xs, sups))
        ELSE [raised |-> NoError,
              results_df |->
                [Position_m |-> xs, Shear_Force_N |-> Vs,
                 Bending_Moment_Nm |-> Ms, Slope_rad |-> sl,
                 Deflection_m |-> boundary_deflection(xs, defl, sups)]]

(***************************************************************************)
(* One call of solve_beam as a state machine: the arguments, the position  *)
(* in the function (pc), its locals, and how the call ended.               *)
(***************************************************************************)
VARIABLES
    properties, supports, loads,    \* the arguments
    pc,                             \* the statement group to run next
    length, E, I,                   \* lines 76-78
    num_points, x, dx,              \* lines 82-84
    is_cantilever, is_ss,           \* lines 88-89
    reactions, initial_moment,      \* lines 92, 94
    V, M,                           \* lines 110-124
    acc,                            \* np.cumsum's running sum while it loops
    slope, deflection,              \* lines 132-133, 156
    warned,                         \* logger.warning of line 139 was called
    raised,                         \* the exception that ended the call
    results_df,                     \* the returned table
    program,                        \* the other calls of the program
    worker,                         \* the Worker whose run makes the call
    gui                             \* the main window and its thread pool

vars ==
    <<properties, supports, loads, pc, length, E, I, num_points, x, dx,
      is_cantilever, is_ss, reactions, initial_moment, V, M, acc, slope,
      deflection, warned, raised, results_df, program, worker, gui>>

args == <<properties, supports, loads>>

locals ==
    <<length, E, I, num_points, x, dx, is_cantilever, is_ss, reactions,
      initial_moment, V, M, acc, slope, deflection, warned, raised,
      results_df>>

\* The locals before the call has assigned them.
LocalsInit ==
    /\ length = Zero /\ E = Zero /\ I = Zero
    /\ num_points = 0 /\ x = <<>> /\ dx = Zero
    /\ is_cantilever = FALSE /\ is_ss = FALSE
    /\ reactions = <<>> /\ initial_moment = Zero
    /\ V = <<>> /\ M = <<>> /\ acc = Zero
    /\ slope = <<>> /\ deflection = <<>>
    /\ warned = FALSE
    /\ raised = NoError
    /\ results_df = NoResult

\* A call made without a Worker: no try statement around it, no signal.
NoWorker ==
    [pc |-> "none", tasks |-> <<>>, output_dir |-> "exists", exc |-> "none",
     caught |-> "none", result |-> "none", emitted |-> <<>>,
     escaped |-> "none"]

\* A program without a main window: no configuration object, no worker in a
\* thread pool, no Run action.
NoWindow ==
    [heap |-> <<>>, current_config |-> 0, run_action |-> FALSE,
     workers |-> <<>>]

\* A program that makes one call: no other frame, no call ended yet.
OneCall == [suspended |-> EmptyBag, history |-> EmptyBag, started |-> 1]

Init ==
    /\ program = OneCall /\ worker = NoWorker /\ gui = NoWindow
    /\ properties \in AllProperties
    /\ supports \in SeqsUpTo(AllSupports, MaxSupports)
    /\ loads \in SeqsUpTo(AllLoads, MaxLoads)
    /\ pc = "validate"
    /\ LocalsInit

\* Lines 75-80: float() of the three properties, each with its default when
\* the key is missing, or AnalysisError.
Validate ==
    /\ pc = "validate"
    /\ IF /\ IsNumber(Get(properties.length, DefaultLength))
          /\ IsNumber(Get(properties.E, DefaultE))
          /\ IsNumber(Get(properties.I, DefaultI))
       THEN /\ length' = Get(properties.length, DefaultLength)
            /\ E' = Get(properties.E, DefaultE)
            /\ I' = Get(properties.I, DefaultI)
            /\ pc' = "grid"
            /\ UNCHANGED raised
       ELSE /\ raised' = AnalysisError("Invalid beam property.")
            /\ pc' = "raised"
            /\ UNCHANGED <<length, E, I>>
    /\ UNCHANGED <<gui, worker, program, args, acc, num_points, x, dx, is_cantilever, is_ss, reactions,
                   initial_moment, V, M, slope, deflection, warned, results_df>>

\* Lines 82-84: num_points, x, dx; np.linspace raises ValueError for a
\* negative sample count and line 84 ZeroDivisionError for a single sample.
BuildGrid ==
    /\ pc = "grid"
    /\ num_points' = num_points_of(length)
    /\ IF grid_error(length).type = "ValueError"
       THEN /\ raised' = grid_error(length)
            /\ pc' = "raised"
            /\ UNCHANGED <<x, dx>>
       ELSE IF grid_error(length) = ZeroDivisionError
       THEN /\ x' = linspace(length, num_points_of(length))
            /\ raised' = ZeroDivisionError
            /\ pc' = "raised"
            /\ UNCHANGED dx
       ELSE /\ x' = linspace(length, num_points_of(length))
            /\ dx' = dx_of(length)
            /\ pc' = "identify"
            /\ UNCHANGED raised
    /\ UNCHANGED <<gui, worker, program, args, acc, length, E, I, is_cantilever, is_ss, reactions,
                   initial_moment, V, M, slope, deflection, warned, results_df>>

\* Mutant: the shear and moment integration (lines 110-124) moved before the
\* reaction computation, which is then never run.
Identify_then_integrate ==
    /\ pc = "identify"
    /\ is_cantilever' = is_cantilever_of(supports)
    /\ is_ss' = is_ss_of(supports)
    /\ pc' = "shear_moment"
    /\ UNCHANGED <<gui, worker, program, args, acc, length, E, I, num_points, x, dx,
                   reactions, initial_moment, V, M, slope, deflection, warned,
                   raised, results_df>>

\* Lines 87-89: the support pattern.
Identify ==
    /\ pc = "identify"
    /\ is_cantilever' = is_cantilever_of(supports)
    /\ is_ss' = is_ss_of(supports)
    /\ pc' = "reactions"
    /\ UNCHANGED <<gui, worker, program, args, acc, length, E, I, num_points, x, dx, reactions,
                   initial_moment, V, M, slope, deflection, warned, raised,
                   results_df>>

\* Lines 91-107: the reactions of the recognized pattern, or AnalysisError.
Reactions ==
    /\ pc = "reactions"
    /\ LET r == IF is_ss
                THEN calculate_reactions_simply_supported(length, supports, loads)
                ELSE IF is_cantilever
                THEN calculate_reactions_cantilever(supports, loads)
                ELSE [raised |-> unrecognized_error(supports),
                      reactions |-> <<>>, initial_moment |-> Zero]
       IN  IF r.raised # NoError
           THEN /\ raised' = r.raised
                /\ pc' = "raised"
                /\ UNCHANGED <<reactions, initial_moment>>
           ELSE /\ reactions' = r.reactions
                /\ initial_moment' = r.initial_moment
                /\ pc' = "shear_moment"
                /\ UNCHANGED raised
    /\ UNCHANGED <<gui, worker, program, args, acc, length, E, I, num_points, x, dx, is_cantilever, is_ss,
                   V, M, slope, deflection, warned, results_df>>

\* Lines 110-124: shear by superposition, moment by cumulative sum.
ShearMoment ==
    /\ pc = "shear_moment"
    /\ V' = shear(x, reactions, loads)
    /\ M' = moment(shear(x, reactions, loads), initial_moment, dx)
    /\ pc' = "slope_deflection"
    /\ UNCHANGED <<gui, worker, program, args, acc, length, E, I, num_points, x, dx, is_cantilever, is_ss,
                   reactions, initial_moment, slope, deflection, warned, raised,
                   results_df>>

\* Lines 126-133: slope and deflection by double cumulative sum.  (E and I
\* are floats here, never None, so line 128 cannot be reached.)
SlopeDeflection ==
    /\ pc = "slope_deflection"
    /\ slope' = slope_of(M, E, I, dx)
    /\ deflection' = raw_deflection(slope_of(M, E, I, dx), dx)
    /\ pc' = "boundary"
    /\ UNCHANGED <<gui, worker, program, args, acc, length, E, I, num_points, x, dx, is_cantilever, is_ss,
                   reactions, initial_moment, V, M, warned, raised, results_df>>

\* Lines 135-156: the boundary conditions.
BoundaryConditions ==
    /\ pc = "boundary"
    /\ IF is_cantilever
       THEN /\ warned' = (supports[1].position # Zero)
            /\ pc' = "assemble"
            /\ UNCHANGED <<deflection, raised>>
       ELSE IF boundary_error(x, supports) # NoError
       THEN /\ raised' = boundary_error(x, supports)
            /\ pc' = "raised"
            /\ UNCHANGED <<deflection, warned>>
       ELSE /\ deflection' = boundary_deflection(x, deflection, supports)
            /\ pc' = "assemble"
            /\ UNCHANGED <<raised, warned>>
    /\ UNCHANGED <<gui, worker, program, args, acc, length, E, I, num_points, x, dx, is_cantilever, is_ss,
                   reactions, initial_moment, V, M, slope, results_df>>

\* Lines 158-167: the result table.
Assemble ==
    /\ pc = "assemble"
    /\ results_df' = [Position_m |-> x, Shear_Force_N |-> V,
                      Bending_Moment_Nm |-> M, Slope_rad |-> slope,
                      Deflection_m |-> deflection]
    /\ pc' = "returned"
    /\ UNCHANGED <<gui, worker, program, args, acc, length, E, I, num_points, x, dx, is_cantilever, is_ss,
                   reactions, initial_moment, V, M, slope, deflection, warned,
                   raised>>

Next ==
    \/ Validate
    \/ BuildGrid
    \/ Identify
    \/ Reactions
    \/ ShearMoment
    \/ SlopeDeflection
    \/ BoundaryConditions
    \/ Assemble

Spec == Init /\ [][Next]_vars

(***************************************************************************)
(* Calls whose properties leave E or I out, or give them as zero, negative *)
(* or no number, for a cantilever, a simply-supported beam and a roller    *)
(* alone.  The load is a multiple of the default E * I, which keeps the    *)
(* rationals of the default stiffness within the integers of the model     *)
(* checker.                                                                *)
(***************************************************************************)
PropertyValuesE == {Num(2), Missing, Zero, Num(-2), NotANumber}

PropertyValuesI == {Num(1), Missing, Zero, Num(-1)}

PropertyCases ==
    [length : {Rat(1, 100), Rat(1, 50)}, E : PropertyValuesE, I : PropertyValuesI]

PropertySupports ==
    {<<[type |-> "fixed", position |-> Zero]>>,
     <<[type |-> "pinned", position |-> Zero],
       [type |-> "roller", position |-> Rat(1, 50)]>>,
     <<[type |-> "roller", position |-> Zero]>>}

PropertyLoads ==
    {<<>>,
     <<[type |-> "point", magnitude |-> Num(-33200000),
        position |-> Rat(1, 100)]>>}

InitProperties ==
    /\ program = OneCall /\ worker = NoWorker /\ gui = NoWindow
    /\ properties \in PropertyCases
    /\ supports \in PropertySupports
    /\ loads \in PropertyLoads
    /\ pc = "validate"
    /\ LocalsInit

SpecProperties == InitProperties /\ [][Next]_vars

(***************************************************************************)
(* The two scenarios of the specification, on their full grids (801 and    *)
(* 2001 samples), from the call to the bending moment (lines 69-124).      *)
(* The vector statements of lines 110-124 run sample by sample, as numpy   *)
(* runs them; the slope and deflection of these grids lie outside the      *)
(* integers of the model checker and are not computed here.  E and I are   *)
(* not read before line 130.                                               *)
(***************************************************************************)
CantileverScenario ==
    <<[length |-> Num(4), E |-> Num(2), I |-> Num(1)],
      <<[type |-> "fixed", position |-> Zero]>>,
      <<[type |-> "point", magnitude |-> Num(-2000), position |-> Num(4)]>>>>

SimplySupportedScenario ==
    <<[length |-> Num(10), E |-> Num(2), I |-> Num(1)],
      <<[type |-> "pinned", position |-> Zero],
        [type |-> "roller", position |-> Num(10)]>>,
      <<[type |-> "point", magnitude |-> Num(-10000), position |-> Num(5)]>>>>

InitScenario ==
    /\ program = OneCall /\ worker = NoWorker /\ gui = NoWindow
    /\ \E s \in {CantileverScenario, SimplySupportedScenario} :
          /\ properties = s[1]
          /\ supports = s[2]
          /\ loads = s[3]
    /\ pc = "validate"
    /\ LocalsInit

\* Lines 110-124 for the next sample k: V[k] by superposition, the running
\* sum of np.cumsum, M[k] = initial_moment + cumsum(V)[k] * dx.
ShearMomentSample ==
    /\ pc = "shear_moment"
    /\ Len(V) < num_points
    /\ LET k == Len(V) + 1
           v == shear_at(x[k], reactions, loads)
       IN  /\ V' = Append(V, v)
           /\ acc' = RAdd(acc, v)
           /\ M' = Append(M, RAdd(initial_moment, RMul(RAdd(acc, v), dx)))
           /\ pc' = IF k = num_points THEN "slope_deflection" ELSE pc
    /\ UNCHANGED <<gui, worker, program, args, length, E, I, num_points, x, dx, is_cantilever, is_ss,
                   reactions, initial_moment, slope, deflection, warned, raised,
                   results_df>>

NextScenario ==
    \/ Validate
    \/ BuildGrid
    \/ Identify
    \/ Reactions
    \/ ShearMomentSample

SpecScenario == InitScenario /\ [][NextScenario]_vars

(***************************************************************************)
(* Calls with a support list of one of the two recognized patterns, on     *)
(* beams of positive length: the calls that build the series.  The roller  *)
(* at 1/1000 is nearer to a pin at 0 than the grid is fine.                *)
(***************************************************************************)
SeriesLengths == {Rat(1, 100), Rat(1, 60), Rat(1, 50)}

SeriesSupportItems ==
    AllSupports \cup {[type |-> "roller", position |-> Rat(1, 1000)]}

SeriesSupports ==
    {s \in SeqsUpTo(SeriesSupportItems, MaxSupports) :
        is_ss_of(s) \/ is_cantilever_of(s)}

InitSeries ==
    /\ program = OneCall /\ worker = NoWorker /\ gui = NoWindow
    /\ properties \in {[length |-> l, E |-> st.E, I |-> st.I] :
                          l \in SeriesLengths, st \in Stiffness}
    /\ supports \in SeriesSupports
    /\ loads \in SeqsUpTo(AllLoads, MaxLoads)
    /\ pc = "validate"
    /\ LocalsInit

SpecSeries == InitSeries /\ [][Next]_vars

(***************************************************************************)
(* A program that calls solve_beam several times, from the main thread     *)
(* (main.py line 39) and from the workers of a thread pool                 *)
(* (gui/main_window.py lines 275-279, gui/worker.py line 31).  Every call  *)
(* has a frame of its own; the threads take turns, and a turn may end      *)
(* between any two statement groups of the running call.  solve_beam reads *)
(* and writes its arguments and locals only: the module holds no variable  *)
(* besides the logger, so the frames and the outcomes are all the state    *)
(* there is.                                                               *)
(***************************************************************************)
\* The arguments the program calls solve_beam with: a cantilever fixed away
\* from the origin, a simply-supported beam, a roller alone (which raises).
CallConfigs ==
    {<<[length |-> Rat(1, 100), E |-> Num(2), I |-> Num(1)],
       <<[type |-> "fixed", position |-> Rat(1, 100)]>>,
       <<[type |-> "point", magnitude |-> Num(3), position |-> Zero]>>>>,
     <<[length |-> Rat(1, 50), E |-> Num(2), I |-> Num(1)],
       <<[type |-> "pinned", position |-> Zero],
         [type |-> "roller", position |-> Rat(1, 50)]>>,
       <<[type |-> "point", magnitude |-> Num(-2), position |-> Rat(1, 100)]>>>>,
     <<[length |-> Rat(1, 100), E |-> Num(2), I |-> Num(1)],
       <<[type |-> "roller", position |-> Zero]>>,
       <<>>>>}

\* The frame of the running call.
Frame ==
    [properties |-> properties,
     supports |-> supports,
     loads |-> loads,
     pc |-> pc,
     length |-> length,
     E |-> E,
     I |-> I,
     num_points |-> num_points,
     x |-> x,
     dx |-> dx,
     is_cantilever |-> is_cantilever,
     is_ss |-> is_ss,
     reactions |-> reactions,
     initial_moment |-> initial_moment,
     V |-> V,
     M |-> M,
     acc |-> acc,
     slope |-> slope,
     deflection |-> deflection,
     warned |-> warned,
     raised |-> raised,
     results_df |-> results_df]

\* The thread runs on with the frame f.
Resume(f) ==
    /\ properties' = f.properties
    /\ supports' = f.supports
    /\ loads' = f.loads
    /\ pc' = f.pc
    /\ length' = f.length
    /\ E' = f.E
    /\ I' = f.I
    /\ num_points' = f.num_points
    /\ x' = f.x
    /\ dx' = f.dx
    /\ is_cantilever' = f.is_cantilever
    /\ is_ss' = f.is_ss
    /\ reactions' = f.reactions
    /\ initial_moment' = f.initial_moment
    /\ V' = f.V
    /\ M' = f.M
    /\ acc' = f.acc
    /\ slope' = f.slope
    /\ deflection' = f.deflection
    /\ warned' = f.warned
    /\ raised' = f.raised
    /\ results_df' = f.results_df

\* Mutant: the result table kept in a module-level variable, which a new call
\* finds as the call before it left it.
NewFrame_module_level_result(a) ==
    [properties |-> a[1],
     supports |-> a[2],
     loads |-> a[3],
     pc |-> "validate",
     length |-> Zero,
     E |-> Zero,
     I |-> Zero,
     num_points |-> 0,
     x |-> <<>>,
     dx |-> Zero,
     is_cantilever |-> FALSE,
     is_ss |-> FALSE,
     reactions |-> <<>>,
     initial_moment |-> Zero,
     V |-> <<>>,
     M |-> <<>>,
     acc |-> Zero,
     slope |-> <<>>,
     deflection |-> <<>>,
     warned |-> FALSE,
     raised |-> NoError,
     results_df |-> results_df]

\* The frame of a new call with the arguments a: its locals are not assigned.
NewFrame(a) ==
    [properties |-> a[1],
     supports |-> a[2],
     loads |-> a[3],
     pc |-> "validate",
     length |-> Zero,
     E |-> Zero,
     I |-> Zero,
     num_points |-> 0,
     x |-> <<>>,
     dx |-> Zero,
     is_cantilever |-> FALSE,
     is_ss |-> FALSE,
     reactions |-> <<>>,
     initial_moment |-> Zero,
     V |-> <<>>,
     M |-> <<>>,
     acc |-> Zero,
     slope |-> <<>>,
     deflection |-> <<>>,
     warned |-> FALSE,
     raised |-> NoError,
     results_df |-> NoResult]

\* The thread has no call in progress.
IdleFrame ==
    [NewFrame(<<[length |-> Zero, E |-> Zero, I |-> Zero], <<>>, <<>>>>)
        EXCEPT !.pc = "idle"]

\* The frames in progress once the running thread gives up its turn.
WithCurrentSuspended ==
    IF pc = "idle" THEN program.suspended
    ELSE program.suspended (+) SetToBag({Frame})

\* What a call produced: the exception raised, or the table returned.
Outcome == [raised |-> raised, results_df |-> results_df]

InitCalls ==
    /\ program = OneCall /\ worker = NoWorker /\ gui = NoWindow
    /\ \E a \in CallConfigs :
          /\ properties = a[1]
          /\ supports = a[2]
          /\ loads = a[3]
    /\ pc = "validate"
    /\ LocalsInit

\* A thread calls solve_beam(a), while the calls of the other threads are
\* where they are.
Call ==
    /\ program.started < MaxCalls
    /\ \E a \in CallConfigs : Resume(NewFrame(a))
    /\ program' = [program EXCEPT !.suspended = WithCurrentSuspended,
                                  !.started = @ + 1]
    /\ UNCHANGED <<worker, gui>>

\* The turn passes to the thread of another call in progress.
Switch ==
    /\ \E f \in BagToSet(program.suspended) :
          /\ pc = "idle" \/ f # Frame
          /\ Resume(f)
          /\ program' = [program EXCEPT
                           !.suspended = WithCurrentSuspended (-) SetToBag({f})]
          /\ UNCHANGED <<worker, gui>>

\* The running call has ended: its caller has the outcome (the except or
\* else clause of main.py lines 38-43, gui/worker.py lines 30-37).
Return ==
    /\ pc \in {"returned", "raised"}
    /\ program' = [program EXCEPT
                     !.history = @ (+) SetToBag({[args |-> args,
                                                  outcome |-> Outcome]})]
    /\ Resume(IdleFrame)
    /\ UNCHANGED <<worker, gui>>

NextCalls ==
    \/ Validate
    \/ BuildGrid
    \/ Identify
    \/ Reactions
    \/ ShearMoment
    \/ SlopeDeflection
    \/ BoundaryConditions
    \/ Assemble
    \/ Call
    \/ Switch
    \/ Return

SpecCalls == InitCalls /\ [][NextCalls]_vars

(***************************************************************************)
(* Worker.run (gui/worker.py lines 26-39) around run_pipeline (main.py      *)
(* lines 13-93), the function the main window wraps (gui/main_window.py     *)
(* line 275): the try statement calls the pipeline, the pipeline checks the *)
(* output directory and the configuration and calls solve_beam, and the     *)
(* except, else and finally clauses emit the signals.  The output tasks of  *)
(* lines 53-90 catch their own exceptions (main.py lines 81-84,             *)
(* reporting/reporter.py lines 131 and 146).  A signal is delivered through *)
(* the event loop of the main thread, so a slot does not run inside emit.   *)
(***************************************************************************)
\* The exception classes of the application (utils/exceptions.py), every
\* one a subclass of Exception.
ExceptionSubclasses ==
    {"DataAnalysisError", "ConfigError", "DataLoadingError", "AnalysisError"}

\* Mutant: the except clause names AnalysisError alone.
except_AnalysisError(cls) == cls = "AnalysisError"

\* except Exception (worker.py line 32): the classes the clause catches.
except_Exception(cls) == cls \in ExceptionSubclasses

\* An exception of class cls is raised inside the try block: the except
\* clause runs if it catches the class, else the finally clause runs with
\* the exception on its way out.
raise_in_try(w, cls) ==
    IF except_Exception(cls)
    THEN [w EXCEPT !.pc = "except", !.caught = cls]
    ELSE [w EXCEPT !.pc = "finally", !.exc = cls]

\* Python's truth value of a configuration entry: an empty or missing
\* mapping or list is false.
EmptyProperties == [length |-> Missing, E |-> Missing, I |-> Missing]

all_present(props, sups, lds, tasks) ==
    /\ props # EmptyProperties
    /\ sups # <<>>
    /\ lds # <<>>
    /\ tasks # <<>>

WorkerProperties ==
    {p \in AllProperties : p.length \in {Rat(1, 100), Zero, NotANumber}}
    \cup {EmptyProperties}

WorkerTasks == {<<>>, <<"save_csv">>}

OutputDirs == {"exists", "created", "OSError"}

\* Worker(run_analysis_pipeline, config, gui_mode=True), about to run.
InitWorker ==
    /\ program = OneCall /\ gui = NoWindow
    /\ properties \in WorkerProperties
    /\ supports \in SeqsUpTo(AllSupports, MaxSupports)
    /\ loads \in SeqsUpTo(PointLoads, 1)
    /\ \E t \in WorkerTasks, d \in OutputDirs :
          worker = [NoWorker EXCEPT !.pc = "try", !.tasks = t,
                                    !.output_dir = d]
    /\ pc = "idle"
    /\ LocalsInit

\* worker.py lines 30-31 and main.py lines 13-39: the try block calls the
\* pipeline, which raises AnalysisError when it cannot make the output
\* directory, ConfigError when an entry of the configuration is missing or
\* empty, and else calls solve_beam.
RunTry ==
    /\ worker.pc = "try"
    /\ pc = "idle"
    /\ IF worker.output_dir = "OSError"
       THEN /\ worker' = raise_in_try(worker, "AnalysisError")
            /\ UNCHANGED pc
       ELSE IF ~all_present(properties, supports, loads, worker.tasks)
       THEN /\ worker' = raise_in_try(worker, "ConfigError")
            /\ UNCHANGED pc
       ELSE /\ worker' = [worker EXCEPT !.pc = "solve_beam"]
            /\ pc' = "validate"
    /\ UNCHANGED <<gui, program, args, locals>>

\* main.py lines 41-43: whatever solve_beam raised leaves the pipeline as
\* an AnalysisError.
PipelineRaises ==
    /\ worker.pc = "solve_beam"
    /\ pc = "raised"
    /\ worker' = raise_in_try(worker, "AnalysisError")
    /\ UNCHANGED <<gui, program, args, pc, locals>>

\* main.py lines 40 and 45-93: solve_beam returned, the output tasks run
\* and the pipeline returns gui_results.
PipelineReturns ==
    /\ worker.pc = "solve_beam"
    /\ pc = "returned"
    /\ worker' = [worker EXCEPT !.pc = "else", !.result = "gui_results"]
    /\ UNCHANGED <<gui, program, args, pc, locals>>

\* worker.py lines 32-35: the except clause emits error.
RunExcept ==
    /\ worker.pc = "except"
    /\ worker' = [worker EXCEPT !.pc = "finally",
                                !.emitted = Append(@, "error")]
    /\ UNCHANGED <<gui, program, args, pc, locals>>

\* worker.py lines 36-37: the else clause emits result.
RunElse ==
    /\ worker.pc = "else"
    /\ worker' = [worker EXCEPT !.pc = "finally",
                                !.emitted = Append(@, "result")]
    /\ UNCHANGED <<gui, program, args, pc, locals>>

\* worker.py lines 38-39: the finally clause emits finished; an exception
\* no clause caught then leaves run.
RunFinally ==
    /\ worker.pc = "finally"
    /\ worker' = [worker EXCEPT !.pc = "done",
                                !.emitted = Append(@, "finished"),
                                !.escaped = worker.exc]
    /\ UNCHANGED <<gui, program, args, pc, locals>>

NextWorker ==
    \/ RunTry
    \/ Validate
    \/ BuildGrid
    \/ Identify
    \/ Reactions
    \/ ShearMoment
    \/ SlopeDeflection
    \/ BoundaryConditions
    \/ Assemble
    \/ PipelineRaises
    \/ PipelineReturns
    \/ RunExcept
    \/ RunElse
    \/ RunFinally

SpecWorker == InitWorker /\ [][NextWorker]_vars

(***************************************************************************)
(* The main window (gui/main_window.py): the configuration objects it has  *)
(* loaded, the one it holds as current_config, the Run action, and the     *)
(* workers it has handed to the thread pool.  A configuration is a dict    *)
(* with the lists 'supports' and 'loads', whose items are dicts; objects   *)
(* are told apart by their place in the heap, and a worker holds the       *)
(* reference it was constructed with (line 275).  The handlers run on the  *)
(* main thread, one at a time; the workers run on the threads of the pool, *)
(* and the finished signal of a worker reaches on_analysis_finished        *)
(* through the event loop.                                                 *)
(***************************************************************************)
\* dict.pop(k, None) and d[k] = v on an item.
Pop(d, k) == [j \in (DOMAIN d) \ {k} |-> d[j]]

Put(d, k, v) == [j \in (DOMAIN d) \cup {k} |-> IF j = k THEN v ELSE d[j]]

\* list.remove(item): the list without its first element equal to item.
Remove(lst, item) ==
    LET first == CHOOSE i \in 1..Len(lst) :
                    lst[i] = item /\ \A j \in 1..(i - 1) : lst[j] # item
    IN  [k \in 1..(Len(lst) - 1) |-> IF k < first THEN lst[k] ELSE lst[k + 1]]

\* What yaml.safe_load returns for the configuration file of the session.
ConfigFile ==
    [supports |-> <<[type |-> "pinned", position |-> Zero],
                    [type |-> "roller", position |-> Num(10)]>>,
     loads |-> <<[type |-> "point", magnitude |-> Num(-10000),
                  position |-> Num(5)]>>]

\* The positions a click or the spin box gives.
GuiPositions == {Zero, Num(2)}

ToolIds == {"add_pinned", "add_point_load", "add_dist_load"}

\* MainWindow.__init__ before load_initial_config: current_config is the
\* empty dict (line 34), here object 0; the Run action is enabled.
NewWindow ==
    [heap |-> <<>>, current_config |-> 0, run_action |-> TRUE,
     workers |-> <<>>]

\* A worker is in progress from its construction to its finished signal.
InProgress(w) == w.pc \in {"queued", "running"}

\* Lines 266-279: nothing without a configuration; else the Run action is
\* disabled and a worker is constructed on current_config itself and
\* handed to the thread pool.
start_analysis(g) ==
    IF g.current_config = 0 THEN g
    ELSE [g EXCEPT !.run_action = FALSE,
                   !.workers = Append(@, [config |-> g.current_config,
                                          snapshot |-> g.heap[g.current_config],
                                          seen |-> <<>>,
                                          pc |-> "queued"])]

\* Lines 311-322: the item after item_data[key] = new_value and the
\* restructuring a change of type brings.
changed_item(item, key, new_value) ==
    LET set == Put(item, key, new_value)
    IN  IF key # "type" THEN set
        ELSE IF new_value = "point"
        THEN LET popped == Pop(Pop(set, "start"), "end")
             IN  IF "position" \in DOMAIN popped THEN popped
                 ELSE Put(popped, "position", Zero)
        ELSE IF new_value = "distributed"
        THEN LET popped == Pop(set, "position")
                 started == IF "start" \in DOMAIN popped THEN popped
                            ELSE Put(popped, "start", Zero)
             IN  IF "end" \in DOMAIN started THEN started
                 ELSE Put(started, "end", RAdd(started.start, Num(2)))
        ELSE set

\* Lines 332-351: the list the new item goes to, and the item.
new_item(tool_id, position) ==
    IF tool_id \in {"add_pinned", "add_roller", "add_fixed"}
    THEN [key |-> "supports",
          item |-> [type |-> IF tool_id = "add_pinned" THEN "pinned"
                             ELSE IF tool_id = "add_roller" THEN "roller"
                             ELSE "fixed",
                    position |-> position]]
    ELSE IF tool_id = "add_point_load"
    THEN [key |-> "loads",
          item |-> [type |-> "point", magnitude |-> Num(-10000),
                    position |-> position]]
    ELSE [key |-> "loads",
          item |-> [type |-> "distributed", magnitude |-> Num(-5000),
                    start |-> position, end |-> RAdd(position, Num(2))]]

\* The keys of an item the properties panel edits, and the values it gives:
\* its widgets emit propertyChanged when the value changes.
Edits(item) ==
    {[key |-> "position", value |-> q] :
        q \in IF "position" \in DOMAIN item
              THEN GuiPositions \ {item.position} ELSE {}}
    \cup {[key |-> "type", value |-> t] :
            t \in IF "magnitude" \in DOMAIN item
                  THEN {"point", "distributed"} \ {item.type} ELSE {}}

InitGui ==
    /\ program = OneCall /\ worker = NoWorker /\ gui = NewWindow
    /\ properties = IdleFrame.properties
    /\ supports = IdleFrame.supports
    /\ loads = IdleFrame.loads
    /\ pc = "idle"
    /\ LocalsInit

\* Lines 152-158 and 163-171: load_config returns a new object, or None;
\* a loaded configuration becomes current_config and an analysis starts.
open_config_file ==
    /\ Len(gui.heap) < MaxConfigs
    /\ Len(gui.workers) < MaxWorkers
    /\ \/ gui' = [gui EXCEPT !.current_config = 0]
       \/ gui' = start_analysis(
                    [gui EXCEPT !.heap = Append(@, ConfigFile),
                                !.current_config = Len(gui.heap) + 1])
    /\ UNCHANGED <<worker, program, args, pc, locals>>

\* Line 131: the Run action, while it is enabled.
run_action_triggered ==
    /\ gui.run_action
    /\ gui.current_config # 0
    /\ Len(gui.workers) < MaxWorkers
    /\ gui' = start_analysis(gui)
    /\ UNCHANGED <<worker, program, args, pc, locals>>

\* Lines 303-328: the item is changed in place, in the configuration
\* object itself, and an analysis starts.
on_property_changed ==
    /\ gui.current_config # 0
    /\ Len(gui.workers) < MaxWorkers
    /\ \E key \in {"supports", "loads"} :
         \E i \in 1..Len(gui.heap[gui.current_config][key]) :
           \E e \in Edits(gui.heap[gui.current_config][key][i]) :
             gui' = start_analysis(
                      [gui EXCEPT !.heap[gui.current_config][key][i] =
                                    changed_item(@, e.key, e.value)])
    /\ UNCHANGED <<worker, program, args, pc, locals>>

\* Lines 330-355: the new item is appended to a list of the configuration
\* object itself, and an analysis starts.
on_add_item_requested ==
    /\ gui.current_config # 0
    /\ Len(gui.workers) < MaxWorkers
    /\ \E tool_id \in ToolIds, position \in GuiPositions :
         LET new == new_item(tool_id, position)
         IN  gui' = start_analysis(
                      [gui EXCEPT !.heap[gui.current_config][new.key] =
                                    Append(@, new.item)])
    /\ UNCHANGED <<worker, program, args, pc, locals>>

\* Lines 357-373: the item is removed from its list in the configuration
\* object itself, loads looked through first, and an analysis starts; the
\* last support is not removed and then no analysis starts.
on_delete_item_requested ==
    /\ gui.current_config # 0
    /\ Len(gui.workers) < MaxWorkers
    /\ \E key \in {"supports", "loads"} :
         \E i \in 1..Len(gui.heap[gui.current_config][key]) :
           LET config == gui.heap[gui.current_config]
               item == config[key][i]
               found == IF \E j \in 1..Len(config.loads) : config.loads[j] = item
                        THEN "loads" ELSE "supports"
           IN  IF found = "supports" /\ Len(config.supports) <= 1
               THEN UNCHANGED gui
               ELSE gui' = start_analysis(
                             [gui EXCEPT !.heap[gui.current_config][found] =
                                           Remove(@, item)])
    /\ UNCHANGED <<worker, program, args, pc, locals>>

\* gui/worker.py lines 30-37: a thread of the pool runs the pipeline of a
\* worker on the configuration object as it is by then.
WorkerRuns ==
    /\ \E i \in 1..Len(gui.workers) :
          /\ gui.workers[i].pc = "queued"
          /\ gui' = [gui EXCEPT !.workers[i].pc = "running",
                                !.workers[i].seen = gui.heap[gui.workers[i].config]]
    /\ UNCHANGED <<worker, program, args, pc, locals>>

\* gui/worker.py lines 38-39: the worker emits finished.
WorkerFinishes ==
    /\ \E i \in 1..Len(gui.workers) :
          /\ gui.workers[i].pc = "running"
          /\ gui' = [gui EXCEPT !.workers[i].pc = "finished"]
    /\ UNCHANGED <<worker, program, args, pc, locals>>

\* Lines 285-288 (and 281-283): the finished signal of a worker reaches the
\* main thread, which enables the Run action again.
on_analysis_finished ==
    /\ \E i \in 1..Len(gui.workers) :
          /\ gui.workers[i].pc = "finished"
          /\ gui' = [gui EXCEPT !.workers[i].pc = "delivered",
                                !.run_action = TRUE]
    /\ UNCHANGED <<worker, program, args, pc, locals>>

NextGui ==
    \/ open_config_file
    \/ run_action_triggered
    \/ on_property_changed
    \/ on_add_item_requested
    \/ on_delete_item_requested
    \/ WorkerRuns
    \/ WorkerFinishes
    \/ on_analysis_finished

SpecGui == InitGui /\ [][NextGui]_vars

\* The call ends as the function of its arguments says.
ReturnsSolveBeam ==
    /\ pc = "returned" =>
          /\ solve_beam(properties, supports, loads).raised = NoError
          /\ solve_beam(properties, supports, loads).results_df = results_df
    /\ pc = "raised" =>
          /\ solve_beam(properties, supports, loads).raised = raised
          /\ results_df = NoResult

(***************************************************************************)
(* Vocabulary of the properties.                                           *)
(***************************************************************************)
\* The sum of a sequence of numbers.
RECURSIVE RSum(_)
RSum(s) == IF s = <<>> THEN Zero ELSE RAdd(RSum(Tail(s)), Head(s))

\* Statics: the resultant of a load and its point of action.
StaticForce(load) ==
    IF load.type = "point" THEN load.magnitude
    ELSE RMul(load.magnitude, RSub(load.end, load.start))

StaticPoint(load) ==
    IF load.type = "point" THEN load.position
    ELSE RDiv(RAdd(load.start, load.end), Num(2))

\* Sum of the load resultants, and of their moments about ref.
SumLoadForces(lds) == RSum([i \in 1..Len(lds) |-> StaticForce(lds[i])])

SumLoadMoments(lds, ref) ==
    RSum([i \in 1..Len(lds) |->
            RMul(StaticForce(lds[i]), RSub(StaticPoint(lds[i]), ref))])

\* Sum of the reaction forces, and of their moments about ref.
SumReactionForces(reacts) == RSum([i \in 1..Len(reacts) |-> reacts[i][2]])

SumReactionMoments(reacts, ref) ==
    RSum([i \in 1..Len(reacts) |->
            RMul(reacts[i][2], RSub(reacts[i][1], ref))])

\* The call has computed its reactions (it is past line 94).
ReactionsComputed ==
    pc \in {"shear_moment", "slope_deflection", "boundary", "assemble", "returned"}

PositionOf(t) == FirstPosition(supports, t, Zero)

\* Reference points for moments: on the beam, off it, between samples.
ReferencePoints ==
    SupportPositions \cup LoadPositions \cup {Rat(-1, 3), Rat(1, 300), Num(7)}

\* C1: for a simply-supported beam (one pinned, one roller, distinct
\* positions) the computed reactions are in static equilibrium with the
\* loads: forces sum to 0 and moments about any reference point sum to 0,
\* a distributed load counting as magnitude*(end-start) at its midpoint.
C1_StaticEquilibrium ==
    (is_ss /\ ReactionsComputed) =>
        /\ RAdd(SumReactionForces(reactions), SumLoadForces(loads)) = Zero
        /\ \A ref \in ReferencePoints :
              RAdd(SumReactionMoments(reactions, ref),
                   SumLoadMoments(loads, ref)) = Zero

\* C1 witness: reactions computed for a point load and a distributed load
\* together, both reactions non-zero, the pin not at the origin.
C1_Witness ==
    /\ is_ss /\ pc = "shear_moment"
    /\ Len(loads) = 2
    /\ loads[1].type = "point" /\ loads[2].type = "distributed"
    /\ PositionOf("pinned") # Zero
    /\ Len(reactions) = 2
    /\ reactions[1][2] # Zero /\ reactions[2][2] # Zero

\* The samples of the grid at position p.
SamplesAt(p) == {k \in 1..Len(x) : x[k] = p}

\* The sample nearest to p, as line 144 and 145 find it.
NearestSample(p) == argmin_abs(x, p)

C3_CantileverZeroAtFixedEnd ==
    (pc = "returned" /\ is_cantilever /\ supports[1].position = Zero
        /\ Len(x) > 0) =>
        /\ results_df.Deflection_m[1] = Zero
        /\ results_df.Slope_rad[1] = Zero

\* C4: the cantilever reaction is the force -F_total at the fixed support,
\* the initial moment is the reaction moment -M_about_fixed (moments of the
\* load resultants about the fixed support); for a simply-supported beam the
\* initial moment is 0.
C4_CantileverReaction ==
    /\ (is_cantilever /\ ReactionsComputed) =>
          /\ reactions = <<<<supports[1].position, RNeg(SumLoadForces(loads))>>>>
          /\ initial_moment = RNeg(SumLoadMoments(loads, supports[1].position))
    /\ (is_ss /\ ReactionsComputed) => initial_moment = Zero

\* C4 witness: a cantilever fixed away from the origin whose loads (a point
\* load and a distributed load) give a non-zero force and moment.
C4_Witness ==
    /\ is_cantilever /\ pc = "shear_moment"
    /\ supports[1].position # Zero
    /\ \E i \in 1..Len(loads) : loads[i].type = "distributed"
    /\ \E i \in 1..Len(loads) : loads[i].type = "point"
    /\ reactions[1][2] # Zero
    /\ initial_moment # Zero

\* The call has ended.
Ended == pc \in {"returned", "raised"}

\* C7 (as claimed): pinned at 0, roller at length, one point load at
\* midspan: the returned deflection at sample k equals that at sample
\* N-1-k, for every k.
C7_SymmetricDeflection ==
    (/\ pc = "returned" /\ is_ss
     /\ PositionOf("pinned") = Zero /\ PositionOf("roller") = length
     /\ Len(loads) = 1 /\ loads[1].type = "point"
     /\ loads[1].position = RDiv(length, Num(2))) =>
        \A k \in 1..Len(x) :
            results_df.Deflection_m[k] = results_df.Deflection_m[Len(x) + 1 - k]

\* The loads with the magnitude of load i doubled.
DoubleLoad(lds, i) ==
    [lds EXCEPT ![i].magnitude = RMul(Num(2), lds[i].magnitude)]

TwiceSeries(s) == [k \in 1..Len(s) |-> RMul(Num(2), s[k])]

\* A result with every shear, moment, slope and deflection value doubled.
TwiceResult(df) ==
    [Position_m |-> df.Position_m,
     Shear_Force_N |-> TwiceSeries(df.Shear_Force_N),
     Bending_Moment_Nm |-> TwiceSeries(df.Bending_Moment_Nm),
     Slope_rad |-> TwiceSeries(df.Slope_rad),
     Deflection_m |-> TwiceSeries(df.Deflection_m)]

PointLoadIndices == {i \in 1..Len(loads) : loads[i].type = "point"}

\* C8 (as claimed): doubling the magnitude of any one point load, all else
\* unchanged, doubles every sampled shear, moment, slope and deflection.
C8_DoublingAnyPointLoad ==
    pc = "returned" =>
        \A i \in PointLoadIndices :
            solve_beam(properties, supports, DoubleLoad(loads, i))
                = [raised |-> NoError, results_df |-> TwiceResult(results_df)]

\* C8 (amended): doubling the magnitude of a point load that is the only
\* load doubles every sampled shear, moment, slope and deflection, for
\* simply-supported and cantilever beams alike; a call that raises still
\* raises the same error.
C8_DoublingTheOnlyLoad ==
    (Ended /\ Len(loads) = 1 /\ loads[1].type = "point") =>
        solve_beam(properties, supports, DoubleLoad(loads, 1))
            = [raised |-> raised, results_df |-> TwiceResult(results_df)]

\* C8 witness: a result returned for a single point load, with non-zero
\* shear, moment, slope and deflection somewhere.
C8_Witness ==
    /\ pc = "returned" /\ Len(loads) = 1 /\ loads[1].type = "point"
    /\ \E k \in 1..Len(x) :
          /\ results_df.Shear_Force_N[k] # Zero
          /\ results_df.Bending_Moment_Nm[k] # Zero
          /\ results_df.Slope_rad[k] # Zero
          /\ results_df.Deflection_m[k] # Zero

\* The rearrangements of a sequence.
Permutations_(n) == {p \in [1..n -> 1..n] : \A i, j \in 1..n : p[i] = p[j] => i = j}

Rearrangements(s) == {[i \in 1..Len(s) |-> s[p[i]]] : p \in Permutations_(Len(s))}

\* C9: the outcome of a call (the result series, or the error) is the same
\* for every rearrangement of the loads list, and for every rearrangement
\* of the supports list.
C9_OrderIrrelevant ==
    Ended =>
        /\ \A lds \in Rearrangements(loads) :
              solve_beam(properties, supports, lds) = Outcome
        /\ \A sups \in Rearrangements(supports) :
              solve_beam(properties, sups, loads) = Outcome

\* C9 witness: a returned result for two different supports and two
\* different loads, with a non-zero deflection.
C9_Witness ==
    /\ pc = "returned"
    /\ Len(supports) = 2 /\ Len(loads) = 2 /\ loads[1] # loads[2]
    /\ \E k \in 1..Len(x) : results_df.Deflection_m[k] # Zero

\* The two valid patterns, by counting the supports of each type.
ValidPattern ==
    \/ /\ Len(supports) = 2
       /\ \E i, j \in 1..2 : supports[i].type = "pinned" /\ supports[j].type = "roller"
    \/ /\ Len(supports) = 1
       /\ supports[1].type = "fixed"

\* The call has got past lines 74-84 (validation and grid).
DispatchReached ==
    \/ pc \in {"reactions", "shear_moment", "slope_deflection", "boundary",
               "assemble", "returned"}
    \/ /\ pc = "raised"
       /\ raised.type = "AnalysisError"
       /\ raised.msg # "Invalid beam property."

PatternErrors ==
    {unrecognized_error(<<>>),
     unrecognized_error(<<[type |-> "fixed", position |-> Zero],
                          [type |-> "fixed", position |-> Zero]>>)}

C5_CantileverScenario ==
    (args = CantileverScenario /\ pc \in {"shear_moment", "slope_deflection"}) =>
        /\ reactions = <<<<Zero, Num(2000)>>>>
        /\ initial_moment = Num(-8000)

\* "Approximately 25000": within one part in a thousand.
MomentTolerance == Num(25)

\* C6 (as claimed): length 10, pinned at 0, roller at 10, point load -10000
\* at x = 5: both reactions are 5000, and the largest bending moment is
\* approximately 25000 and is the one at the sample x = 5 (stated of every
\* sample computed so far, from the moment the sample at x = 5 is).
C6_SimplySupportedScenario ==
    (args = SimplySupportedScenario
        /\ pc \in {"shear_moment", "slope_deflection"}) =>
        /\ reactions = <<<<Zero, Num(5000)>>, <<Num(10), Num(5000)>>>>
        /\ \A k \in 1..Len(M) :
              x[k] = Num(5) =>
                  /\ RGe(MomentTolerance, RAbs(RSub(M[k], Num(25000))))
                  /\ \A j \in 1..Len(M) : RGe(M[k], M[j])

\* The two configuration errors of lines 98-107.
UnstableError ==
    AnalysisError("Invalid support configuration: The structure is unstable.")

UnsupportedError == AnalysisError("Unsupported support combination")

\* The support list holds neither a pinned nor a fixed support.
NoPinNoFixed ==
    \A i \in 1..Len(supports) : supports[i].type \notin {"pinned", "fixed"}

\* The call has gone through the dispatch of lines 91-107.
DispatchDone == DispatchReached /\ pc # "reactions"

TwoFixed ==
    /\ Len(supports) = 2
    /\ supports[1].type = "fixed" /\ supports[2].type = "fixed"

\* C12 (as claimed): a support list with no supports at all, like a list
\* with two fixed supports, is rejected with the 'unsupported combination'
\* error, which is not the 'unstable' error.
C12_NoSupportsIsUnsupported ==
    /\ UnsupportedError # UnstableError
    /\ ((supports = <<>> \/ TwoFixed) /\ DispatchDone) =>
          (pc = "raised" /\ raised = UnsupportedError)

\* One pinned and one roller support, at the same position.
CoincidentSupports ==
    /\ Len(supports) = 2
    /\ {supports[1].type, supports[2].type} = {"pinned", "roller"}
    /\ supports[1].position = supports[2].position

CoincidentError ==
    AnalysisError("Pinned and roller supports cannot be at the same position.")

NonPositiveLength ==
    /\ IsNumber(Get(properties.length, DefaultLength))
    /\ RGe(Zero, Get(properties.length, DefaultLength))

\* C14 (as claimed): when the beam length is zero or negative the call fails
\* validation (lines 75-80) with the configuration error, before the grid is
\* built or a reaction is computed.
C14_NonPositiveLengthFailsValidation ==
    NonPositiveLength =>
        /\ pc \in {"validate", "raised"}
        /\ num_points = 0 /\ x = <<>> /\ reactions = <<>>
        /\ pc = "raised" => raised.type = "AnalysisError"

\* A property that is missing from the dict, or is a number <= 0.
MissingOrNonPositive(v) == v = Missing \/ (IsNumber(v) /\ RGe(Zero, v))

\* C15 (as claimed): the call fails with an error and returns no result
\* whenever E or I is missing from the properties or is not positive.
C15_StiffnessMissingOrNonPositiveFails ==
    (MissingOrNonPositive(properties.E) \/ MissingOrNonPositive(properties.I)) =>
        /\ pc # "returned"
        /\ results_df = NoResult

\* Position p lies within the beam span [0, length].
WithinSpan(p) == RGe(p, Zero) /\ RGe(length, p)

\* C16 (as claimed): a configuration with a support position outside
\* [0, length] is rejected with an error and returns no result: every call
\* that returns a result had all its support positions within the span
\* (stated of the beams of positive length, where the span is an interval).
C16_SupportsWithinSpan ==
    (pc = "returned" /\ RLt(Zero, length)) =>
        \A i \in 1..Len(supports) : WithinSpan(supports[i].position)

\* floor(a) for a rational a.
Floor(a) == a[1] \div a[2]

\* The length the call computes with is a positive number.
PositiveLength ==
    /\ IsNumber(Get(properties.length, DefaultLength))
    /\ RLt(Zero, Get(properties.length, DefaultLength))

\* C17 (as claimed): for every positive length the call uses a grid of
\* exactly N = floor(length * 200) + 1 samples, N >= 2, whose positions
\* ascend strictly from 0 (first sample) to length (last sample) with the
\* uniform spacing dx = length / (N - 1) > 0, and the result has one row per
\* grid sample (stated of every call that has gone through lines 82-84).
C17_UniformGrid ==
    (PositiveLength /\ pc \notin {"validate", "grid"}) =>
        /\ num_points = Floor(RMul(length, Num(200))) + 1
        /\ num_points >= 2
        /\ Len(x) = num_points
        /\ x[1] = Zero /\ x[num_points] = length
        /\ dx = RDiv(length, Num(num_points - 1)) /\ RLt(Zero, dx)
        /\ \A k \in 1..(num_points - 1) : RSub(x[k + 1], x[k]) = dx
        /\ pc = "returned" =>
              /\ results_df.Position_m = x
              /\ \A series \in {results_df.Shear_Force_N,
                                 results_df.Bending_Moment_Nm,
                                 results_df.Slope_rad,
                                 results_df.Deflection_m} :
                    Len(series) = num_points

\* C18 (as claimed): every failure of the call is raised as the solver's
\* typed error, AnalysisError, and aborts the call: no result table is
\* returned on a failing path.
C18_EveryFailureIsAnalysisError ==
    pc = "raised" =>
        /\ raised.type = "AnalysisError"
        /\ results_df = NoResult

EndedCalls == BagToSet(program.history)

\* C20: solve_beam carries no state between calls.  Any two calls with
\* identical (properties, supports, loads) end with identical outcomes,
\* whatever calls ended before them or ran in turns with them: the outcome of
\* every ended call, and of the running call once it has ended, is the one
\* the function of its arguments alone gives.
C20_NoStateBetweenCalls ==
    /\ \A c, d \in EndedCalls : c.args = d.args => c.outcome = d.outcome
    /\ \A c \in EndedCalls :
          /\ Ended => (c.args = args => c.outcome = Outcome)
          /\ c.outcome = solve_beam(c.args[1], c.args[2], c.args[3])
    /\ Ended => Outcome = solve_beam(properties, supports, loads)

\* C20 witness: two calls with identical arguments have ended, both with a
\* result, while a call with other arguments, started before the second of
\* them ended, is half-way in another thread.
C20_Witness ==
    /\ \E c \in EndedCalls :
          /\ CopiesIn(c, program.history) = 2
          /\ c.outcome.raised = NoError
          /\ c.outcome.results_df # NoResult
          /\ \E f \in BagToSet(program.suspended) :
                /\ <<f.properties, f.supports, f.loads>> # c.args
                /\ f.pc = "slope_deflection"
    /\ program.started = MaxCalls

\* The shear has been computed (the call is past line 122).
ShearComputed ==
    pc \in {"slope_deflection", "boundary", "assemble", "returned"}

\* What a force m at position p adds to the shear at position xk.
Heaviside(xk, p, m) == IF RLt(xk, p) THEN Zero ELSE m

\* What a distributed load adds to the shear at position xk.
RampAndPlateau(xk, load) ==
    IF RGe(xk, load.start) /\ RLt(xk, load.end)
    THEN RMul(load.magnitude, RSub(xk, load.start))
    ELSE IF RGe(xk, load.end)
    THEN RMul(load.magnitude, RSub(load.end, load.start))
    ELSE Zero

Contribution(xk, load) ==
    IF load.type = "point"
    THEN Heaviside(xk, load.position, load.magnitude)
    ELSE RampAndPlateau(xk, load)

\* The superposition of the contributions of all reactions and loads.
Superposition(xk) ==
    RAdd(RSum([i \in 1..Len(reactions) |->
                 Heaviside(xk, reactions[i][1], reactions[i][2])]),
         RSum([i \in 1..Len(loads) |-> Contribution(xk, loads[i])]))

\* p lies in the interval (a, b].
InLeftOpen(p, a, b) == RLt(a, p) /\ RGe(b, p)

\* The magnitudes of the reactions and point loads located in (a, b].
JumpWithin(a, b) ==
    RAdd(RSum([i \in 1..Len(reactions) |->
                 IF InLeftOpen(reactions[i][1], a, b)
                 THEN reactions[i][2] ELSE Zero]),
         RSum([i \in 1..Len(loads) |->
                 IF InLeftOpen(loads[i].position, a, b)
                 THEN loads[i].magnitude ELSE Zero]))

OnlyPointLoads == \A i \in 1..Len(loads) : loads[i].type = "point"

\* C21: at every grid sample the shear is the superposition of independent
\* contributions: m at and beyond p for a reaction or point load (p, m);
\* m * (x - start) within [start, end) and m * (end - start) from end on for
\* a distributed load.  With point loads only, the shear changes from one
\* sample to the next by the magnitudes of the reactions and point loads
\* located between them (after the first, up to and including the second),
\* and not at all where there are none.
C21_ShearBySuperposition ==
    ShearComputed =>
        /\ Len(V) = Len(x)
        /\ \A k \in 1..Len(x) : V[k] = Superposition(x[k])
        /\ OnlyPointLoads =>
              \A k \in 2..Len(x) :
                  RSub(V[k], V[k - 1]) = JumpWithin(x[k - 1], x[k])

\* C21 witness: a simply-supported beam under two point loads whose shear
\* takes at least three different values, with a jump away from the first
\* sample.
C21_Witness ==
    /\ ShearComputed /\ is_ss
    /\ OnlyPointLoads /\ Len(loads) = 2 /\ loads[1] # loads[2]
    /\ Cardinality({V[k] : k \in 1..Len(V)}) >= 3
    /\ \E k \in 3..Len(x) : V[k] # V[k - 1]

\* The sum of the first k elements of a series.
PrefixSum(series, k) == RSum(SubSeq(series, 1, k))

\* The curvature series M / (E * I).
Curvature == [j \in 1..Len(M) |-> RDiv(M[j], RMul(E, I))]

\* The slope has been computed (the call is past line 133).
SlopeComputed == pc \in {"boundary", "assemble", "returned"}

\* C22: each integrated series is the running sum, over the samples up to
\* and including the current one, of the series before it, scaled by dx:
\* M[k] = initial_moment + dx * (V[1] + ... + V[k]), slope[k] = dx *
\* (M[1] + ... + M[k]) / (E * I), and the uncorrected deflection[k] = dx *
\* (slope[1] + ... + slope[k]).
C22_RunningSums ==
    /\ ShearComputed =>
          /\ Len(M) = Len(V)
          /\ \A k \in 1..Len(V) :
                M[k] = RAdd(initial_moment, RMul(dx, PrefixSum(V, k)))
    /\ SlopeComputed =>
          /\ Len(slope) = Len(M)
          /\ \A k \in 1..Len(M) :
                slope[k] = RMul(dx, PrefixSum(Curvature, k))
    /\ (pc = "boundary" \/ (SlopeComputed /\ is_cantilever)) =>
          /\ Len(deflection) = Len(slope)
          /\ \A k \in 1..Len(slope) :
                deflection[k] = RMul(dx, PrefixSum(slope, k))

\* C22 witness: the three series of a cantilever with a non-zero initial
\* moment, before the boundary conditions, none of them constant.
C22_Witness ==
    /\ pc = "boundary" /\ is_cantilever
    /\ initial_moment # Zero
    /\ Len(x) >= 4
    /\ \A series \in {M, slope, deflection} :
          Cardinality({series[k] : k \in 1..Len(series)}) >= 3

\* The stages of a call, in the order of the text of solve_beam.
Stages ==
    <<"validate", "grid", "identify", "reactions", "shear_moment",
      "slope_deflection", "boundary", "assemble", "returned">>

StageRank(p) == CHOOSE i \in 1..Len(Stages) : Stages[i] = p

\* A step of the call either raises or goes on to the next stage.
NextStageOrRaise ==
    pc' # pc => (pc' = "raised" \/ StageRank(pc') = StageRank(pc) + 1)

\* What each stage does to the deflection: the raw double sum is written by
\* the slope and deflection stage, the correction by the boundary stage of
\* a simply-supported beam, and no other step writes it.
DeflectionWrittenInTurn ==
    /\ deflection' # deflection => pc \in {"slope_deflection", "boundary"}
    /\ (pc = "boundary" /\ pc' = "assemble") =>
          deflection' =
              IF is_ss
              THEN corrected_deflection(x, deflection,
                                        NearestSample(PositionOf("pinned")),
                                        NearestSample(PositionOf("roller")))
              ELSE deflection
    /\ (pc = "boundary" /\ deflection' # deflection) => is_ss

\* C23: in every call that returns a result the stages occur in this order:
\* pattern recognition, reactions, shear and moment, slope and deflection,
\* boundary conditions, assembly.  Every stage is entered from the one
\* before it, so none runs twice; the reactions exist before the moment is
\* integrated and the moment before the deflection; the correction is
\* applied in the one boundary step, to the raw deflection, exactly once for
\* a simply-supported beam and not at all for a cantilever.
C23_StagesInOrder ==
    /\ [][NextStageOrRaise /\ DeflectionWrittenInTurn]_vars
    /\ [](ShearComputed => reactions # <<>>)
    /\ [](pc = "slope_deflection" => (Len(M) = num_points /\ slope = <<>>))
    /\ [](pc = "boundary" => deflection = raw_deflection(slope, dx))
    /\ [](pc = "returned" =>
            results_df.Deflection_m =
                IF is_ss
                THEN corrected_deflection(x, raw_deflection(slope, dx),
                                          NearestSample(PositionOf("pinned")),
                                          NearestSample(PositionOf("roller")))
                ELSE raw_deflection(slope, dx))

\* C23 witness: a simply-supported call has returned, and the correction
\* changed the deflection.
C23_Witness ==
    /\ pc = "returned" /\ is_ss
    /\ results_df.Deflection_m # raw_deflection(slope, dx)

CorrectorError ==
    AnalysisError("Cannot calculate deflection; supports are at the same position.")

\* The pinned and the roller support have the same nearest grid sample.
SameSupportSample ==
    /\ x # <<>>
    /\ NearestSample(PositionOf("pinned")) = NearestSample(PositionOf("roller"))

\* C24: a simply-supported beam whose pinned and roller positions are
\* distinct but have the same nearest grid sample fails in the corrector,
\* with 'supports are at the same position', and returns no result.  With
\* equal positions the reaction solver's error is raised instead, so the
\* corrector's error is raised for distinct positions only; with distinct
\* samples neither error is raised.
C24_CorrectorError ==
    /\ (is_ss /\ PositionOf("pinned") # PositionOf("roller")
           /\ SameSupportSample) =>
          /\ pc \notin {"assemble", "returned"}
          /\ results_df = NoResult
          /\ pc = "raised" => raised = CorrectorError
    /\ raised = CorrectorError =>
          /\ pc = "raised" /\ is_ss /\ SameSupportSample
          /\ PositionOf("pinned") # PositionOf("roller")
          /\ results_df = NoResult
    /\ (is_ss /\ PositionOf("pinned") = PositionOf("roller")
           /\ pc # "reactions") =>
          (pc = "raised" /\ raised = CoincidentError)
    /\ (is_ss /\ ~SameSupportSample) => raised = NoError

\* C24 witness: a pin at 0 and a roller at 1/1000, both within the span and
\* both nearest to the first sample, rejected by the corrector.
C24_Witness ==
    /\ pc = "raised" /\ raised = CorrectorError
    /\ PositionOf("pinned") = Zero /\ PositionOf("roller") = Rat(1, 1000)
    /\ loads # <<>>
    /\ deflection # <<>>

\* What the correction took off the uncorrected deflection at sample k.
Removed(k) == RSub(raw_deflection(slope, dx)[k], deflection[k])

\* The points (x[k], Removed(k)) lie on the line through the uncorrected
\* deflections at the samples i and j.
OnLineThrough(i, j) ==
    /\ Removed(i) = raw_deflection(slope, dx)[i]
    /\ Removed(j) = raw_deflection(slope, dx)[j]
    /\ \A k \in 1..Len(x) :
          Removed(k) =
              RAdd(Removed(i),
                   RMul(RDiv(RSub(Removed(j), Removed(i)), RSub(x[j], x[i])),
                        RSub(x[k], x[i])))

\* C25: the boundary-condition step changes the deflection series only.
\* The position, shear, moment and slope series of the result are the
\* values computed before that step, and the corrected deflection differs
\* from the uncorrected one by a function affine in position: the line
\* through the uncorrected deflections at the two support samples (for a
\* cantilever, by nothing).
C25_CorrectionFrame ==
    /\ [][pc = "boundary" =>
            (x' = x /\ V' = V /\ M' = M /\ slope' = slope)]_vars
    /\ [](pc = "returned" =>
            /\ results_df.Position_m = x
            /\ results_df.Shear_Force_N = V
            /\ results_df.Bending_Moment_Nm = M
            /\ results_df.Slope_rad = slope
            /\ results_df.Deflection_m = deflection
            /\ x = linspace(length, num_points)
            /\ V = shear(x, reactions, loads)
            /\ M = moment(V, initial_moment, dx)
            /\ slope = slope_of(M, E, I, dx))
    /\ [](pc \in {"assemble", "returned"} =>
            IF is_ss
            THEN OnLineThrough(NearestSample(PositionOf("pinned")),
                               NearestSample(PositionOf("roller")))
            ELSE deflection = raw_deflection(slope, dx))

\* C25 witness: a returned simply-supported result whose correction line
\* has a non-zero offset and a non-zero slope.
C25_Witness ==
    /\ pc = "returned" /\ is_ss
    /\ Removed(NearestSample(PositionOf("pinned"))) # Zero
    /\ Removed(NearestSample(PositionOf("roller")))
          # Removed(NearestSample(PositionOf("pinned")))

\* Every support, point load and distributed-load interval (start <= end)
\* lies within the span [0, length].
AllWithinSpan ==
    /\ \A i \in 1..Len(supports) : WithinSpan(supports[i].position)
    /\ \A i \in 1..Len(loads) :
          IF loads[i].type = "point"
          THEN WithinSpan(loads[i].position)
          ELSE /\ WithinSpan(loads[i].start) /\ WithinSpan(loads[i].end)
               /\ RGe(loads[i].end, loads[i].start)

\* C26: for an accepted configuration (simply-supported or cantilever) whose
\* supports, point loads and distributed-load intervals all lie within
\* [0, length], the shear at the last sample (x = length) is 0.
C26_ShearClosesAtEnd ==
    (ShearComputed /\ AllWithinSpan) =>
        /\ x[Len(x)] = length
        /\ V[Len(V)] = Zero

\* C26 witness: a beam under a point load and a distributed load that ends
\* at the end of the beam, all within the span, whose shear is not 0
\* everywhere.
C26_Witness ==
    /\ ShearComputed /\ AllWithinSpan
    /\ \E i \in 1..Len(loads) : loads[i].type = "point"
    /\ \E i \in 1..Len(loads) :
          loads[i].type = "distributed" /\ loads[i].end = length
    /\ \E k \in 1..Len(V) : V[k] # Zero

\* p is a grid position: an integer multiple of dx within [0, length].
OnGrid(p) == \E k \in 0..(num_points - 1) : p = RMul(Num(k), dx)

\* Only point loads, and every support and every load at a grid position.
PointLoadsOnGrid ==
    /\ OnlyPointLoads
    /\ \A i \in 1..Len(supports) : OnGrid(supports[i].position)
    /\ \A i \in 1..Len(loads) : OnGrid(loads[i].position)

\* C27: for a simply-supported beam with only point loads, whose two
\* supports and whose loads are at grid positions within [0, length], the
\* bending moment at the last sample (x = length) is 0.
C27_MomentClosesSimplySupported ==
    (ShearComputed /\ is_ss /\ PointLoadsOnGrid) =>
        /\ x[Len(x)] = length
        /\ M[Len(M)] = Zero

\* C27 witness: such a beam with a load away from both supports and the
\* pin away from the origin, whose moment is not 0 at some other sample.
C27_Witness ==
    /\ ShearComputed /\ is_ss /\ PointLoadsOnGrid
    /\ PositionOf("pinned") # Zero
    /\ \E i \in 1..Len(loads) :
          /\ loads[i].position # PositionOf("pinned")
          /\ loads[i].position # PositionOf("roller")
    /\ \E k \in 1..Len(M) : M[k] # Zero
    /\ M[Len(M)] = Zero

\* C28 (as claimed): for a cantilever with the fixed support at position 0
\* and only point loads at grid positions within [0, length], the bending
\* moment at the free end (the last sample, x = length) is 0.
C28_MomentClosesCantilever ==
    (ShearComputed /\ is_cantilever /\ PointLoadsOnGrid
        /\ supports[1].position = Zero) =>
        M[Len(M)] = Zero

\* The signals a worker may have emitted so far: result or error, then
\* finished.
SignalOrders ==
    {<<>>, <<"result">>, <<"error">>, <<"result", "finished">>,
     <<"error", "finished">>}

\* C29: every execution of Worker.run emits exactly one of the signals
\* result and error, result if and only if the wrapped function returned
\* without raising, and then emits finished exactly once, after that
\* signal; no exception of the wrapped function leaves run.  Stated of the
\* function the program wraps, run_pipeline, whose exceptions are all
\* subclasses of Exception, and of the signals emitted up to any point of
\* the run and at its end.
C29_WorkerSignals ==
    /\ [](worker.pc # "none" => worker.emitted \in SignalOrders)
    /\ [](worker.pc = "done" =>
            /\ Len(worker.emitted) = 2
            /\ worker.emitted[2] = "finished"
            /\ worker.emitted[1] = "result" <=>
                  (worker.result = "gui_results" /\ worker.caught = "none")
            /\ worker.emitted[1] = "error" <=> worker.caught # "none"
            /\ worker.result = "gui_results" <=>
                  (pc = "returned" /\ results_df # NoResult)
            /\ worker.escaped = "none")
    /\ [][worker'.emitted # worker.emitted =>
            /\ Len(worker'.emitted) = Len(worker.emitted) + 1
            /\ worker.pc \in {"except", "else", "finally"}]_vars

\* C29 witness: a run whose pipeline raised ConfigError has emitted error
\* and then finished.
C29_Witness ==
    /\ worker.pc = "done"
    /\ worker.caught = "ConfigError"
    /\ worker.emitted = <<"error", "finished">>

\* C30 (as claimed): the configuration handed to an analysis worker is an
\* immutable snapshot for the duration of that analysis: between
\* start_analysis and the worker's finished signal no edit handler changes
\* the configuration object the worker reads, and no second worker is
\* started on it.
C30_ConfigurationSnapshot ==
    \A i \in 1..Len(gui.workers) :
        InProgress(gui.workers[i]) =>
            /\ gui.heap[gui.workers[i].config] = gui.workers[i].snapshot
            /\ \A j \in 1..Len(gui.workers) :
                  (j # i /\ InProgress(gui.workers[j])) =>
                      gui.workers[j].config # gui.workers[i].config

====
